---- MODULE Spec2Model ----
(***************************************************************************)
(* The calendar-synchronisation core of taskflow-backend/src/server.js:    *)
(* the per-user OAuth credential documents, the process-wide OAuth2 client *)
(* with its 'tokens' listeners, the task documents, the remote calendar    *)
(* events, and the request handlers, each split at its await points.       *)
(*                                                                         *)
(* A JavaScript object is a function from its present keys to values, so   *)
(* an absent key (undefined) differs from a key holding null.  null for a  *)
(* dueDateTime is NoDue, null for a calendarEventId is NoEvent.            *)
(***************************************************************************)
EXTENDS Integers, FiniteSets, Sequences, TLC

\* ------------------------------------------------------------------ bounds
MaxReqs == 2
MaxTasks == 1
MaxEvents == 2
MaxTok == 2
MaxFields == 2

\* --------------------------------------------------------------- constants
Users == {"u1", "u2"}
Procs == {1, 2}
NoUser == "none"
NoDue == 0
NoEvent == 0
DefaultDuration == 30
DefaultZone == "Africa/Lagos"
OtherZone == "UTC"

VARIABLES
    creds,        \* userSecrets/<uid>/integrations/google: the tokens object
    clientCreds,  \* oauth2Client.credentials
    boundUid,     \* the uid of the calendarClientFor call that last bound the client
    listeners,    \* the 'tokens' listeners registered on oauth2Client
    issued,       \* tokens the provider has issued
    tasks,        \* users/<uid>/tasks: id -> document
    nextTask,     \* task documents added so far (auto ids)
    events,       \* the provider's calendar events
    nextEvent,    \* events inserted so far (provider ids)
    reqs,         \* requests received so far
    procs         \* the requests in flight, one per slot

vars == <<creds, clientCreds, boundUid, listeners, issued, tasks, nextTask,
          events, nextEvent, reqs, procs>>

\* ----------------------------------------------------------------- objects
Empty == [k \in {} |-> 0]

\* obj.k, with dflt for undefined
Get(obj, k, dflt) == IF k \in DOMAIN obj THEN obj[k] ELSE dflt

\* { ...old, ...new }, and Firestore's set(new, { merge: true }) on a document
Merge(old, new) ==
    [k \in DOMAIN old \cup DOMAIN new |-> IF k \in DOMAIN new THEN new[k] ELSE old[k]]

\* the object { k: v }
Field(k, v) == [x \in {k} |-> v]

\* the objects of S, and each of them with key k set to a value of vals
WithKey(S, k, vals) == S \cup {Merge(b, Field(k, v)) : b \in S, v \in vals}

\* --------------------------------------------------------------------- time
\* the UTC offset, in minutes, of a zone
Offset(z) == IF z = "UTC" THEN 0 ELSE 60

\* DateTime.fromISO(due, { zone }): the wall time due, read in zone
FromISO(due, z) == [utc |-> due - Offset(z), zone |-> z]

\* start.plus({ minutes })
Plus(t, minutes) == [utc |-> t.utc + minutes, zone |-> t.zone]

\* the wall time a DateTime shows in its own zone
Local(t) == t.utc + Offset(t.zone)

\* ------------------------------------------------------------- credentials
\* a token the provider issued: the account it acts for, and its serial number
Token(acct, n) == [owner |-> acct, n |-> n]

\* what getToken returns for a consent of account acct
Grant(acct, n) == [access_token |-> Token(acct, n), refresh_token |-> Token(acct, n)]

\* variant: the check of line 100 left out
ConnectedAlways(data) == TRUE

\* line 100: a document with neither token is "not connected"
Connected(data) == "refresh_token" \in DOMAIN data \/ "access_token" \in DOMAIN data

\* the account a call made with credentials c acts on
Account(c) ==
    IF "access_token" \in DOMAIN c THEN c.access_token.owner
    ELSE c.refresh_token.owner

\* ---------------------------------------------------------------- requests
IdleProc ==
    [kind |-> "none", pc |-> "idle", uid |-> NoUser, id |-> 0, body |-> Empty,
     arg |-> Empty, eventId |-> NoEvent, status |-> 0, resp |-> Empty,
     plan |-> "once", first |-> Empty, cal |-> "none", calls |-> 0,
     wanted |-> FALSE, refused |-> FALSE]

\* a handler that has answered or thrown leaves its slot before anything else runs
Settled == \A p \in Procs : procs[p].pc \notin {"done", "failed"}

\* the request in slot p is at the await named at
At(p, at) == Settled /\ procs[p].pc = at

\* a request takes the lowest slot that is free; alone: when no other is in flight
Free(p, alone) ==
    /\ At(p, "idle")
    /\ \A q \in Procs : procs[q].pc = "idle" => p <= q
    /\ alone => \A q \in Procs : procs[q].pc = "idle"

\* a request of the given kind, just received for user u
Fresh(kind, u) == [IdleProc EXCEPT !.kind = kind, !.uid = u]

\* the handler answers with status st and body resp
Done(r, st, resp) ==
    [r EXCEPT !.pc = "done", !.status = st, !.resp = resp, !.arg = Empty]

\* variant: the error is caught and the request answers as if served
FailedAnswers(r) == Done(r, 201, Empty)

\* variant: the step that threw is tried again
FailedRetries(r) == [r EXCEPT !.pc = "call"]

\* the handler throws outside any try: no answer is sent
Failed(r) == [r EXCEPT !.pc = "failed", !.arg = Empty]

\* The process starts with a fresh client and no request; the database
\* and the calendars outlive it.  The users are connected or not, and the
\* database is empty or holds what an earlier POST /tasks of the connected
\* user u1 with { title, dueDateTime, calendarSync: true, timezone } left:
\* the task,
\* its event and the event's id on the task.
SeedTask ==
    [title |-> "a", dueDateTime |-> 600, calendarSync |-> TRUE,
     timezone |-> OtherZone, calendarEventId |-> 1]

SeedEvent ==
    [id |-> 1, cal |-> "u1", task |-> <<"u1", 1>>, summary |-> "a",
     start |-> FromISO(600, OtherZone),
     end |-> Plus(FromISO(600, OtherZone), DefaultDuration)]

Init ==
    /\ \E C \in SUBSET Users :
          creds = [u \in Users |-> IF u \in C THEN Grant(u, 0) ELSE Empty]
    /\ clientCreds = Empty
    /\ boundUid = NoUser
    /\ listeners = {}
    /\ issued = 0
    /\ \/ /\ tasks = [u \in Users |-> Empty]
          /\ nextTask = 0
          /\ events = {}
          /\ nextEvent = 0
       \/ /\ Connected(creds["u1"])
          /\ tasks = [u \in Users |-> IF u = "u1" THEN <<SeedTask>> ELSE Empty]
          /\ nextTask = 1
          /\ events = {SeedEvent}
          /\ nextEvent = 1
    /\ reqs = 0
    /\ procs = [p \in Procs |-> IdleProc]

\* ------------------------------------------- GET /calendar/oauth2callback
\* The state names the user (or none, or is no JSON); the code is "ok" or
\* "bad".  The consenting Google account is taken to be the user's own.
CallbackStates == Users \cup {NoUser, "malformed"}

\* lines 77-82: JSON.parse throws on a malformed state; getToken(code)
\* settles, and only then is the uid looked for
StartCallback(p, st, code, alone) ==
    LET r == [Fresh("callback", IF st = "malformed" THEN NoUser ELSE st)
                 EXCEPT !.body = [state |-> st, code |-> code]]
    IN
    /\ Free(p, alone)
    /\ reqs < MaxReqs
    /\ reqs' = reqs + 1
    /\ code = "ok" /\ st # "malformed" => issued < MaxTok
    /\ issued' = IF code = "ok" /\ st # "malformed" THEN issued + 1 ELSE issued
    /\ procs' = [procs EXCEPT ![p] =
                    IF st = "malformed" \/ code = "bad" THEN Done(r, 500, Empty)
                    ELSE IF st = NoUser THEN Done(r, 400, Empty)
                    ELSE [r EXCEPT !.pc = "cb_store", !.arg = Grant(st, issued + 1)]]
    /\ UNCHANGED <<creds, clientCreds, boundUid, listeners, tasks, nextTask,
                   events, nextEvent>>

\* lines 83-90: set({ tokens }, { merge: true }), then the page
CbStore(p) ==
    LET r == procs[p] IN
    /\ At(p, "cb_store")
    /\ creds' = [creds EXCEPT ![r.uid] = Merge(@, r.arg)]
    /\ procs' = [procs EXCEPT ![p] = Done(r, 200, Empty)]
    /\ UNCHANGED <<clientCreds, boundUid, listeners, issued, tasks, nextTask,
                   events, nextEvent, reqs>>

\* ------------------------------------------------------ calendarClientFor
\* lines 97-110, after the read of the user's document settles: not
\* connected returns null; else bind the shared client and add a listener
\* closing over uid and the snapshot.  After null, upsertCalendarEvent
\* returns null (line 222) and DELETE skips the provider call (line 208).
Bind(p) ==
    LET r == procs[p]
        data == creds[r.uid]
    IN
    /\ At(p, "bind")
    /\ IF ~Connected(data)
       THEN /\ procs' = [procs EXCEPT ![p] =
                            [r EXCEPT !.cal = "null", !.eventId = NoEvent,
                                      !.pc = IF r.kind = "delete" THEN "remove" ELSE "write_id"]]
            /\ UNCHANGED <<clientCreds, boundUid, listeners>>
       ELSE /\ clientCreds' = data
            /\ boundUid' = r.uid
            /\ listeners' = listeners \cup {[uid |-> r.uid, data |-> data]}
            /\ procs' = [procs EXCEPT ![p] = [r EXCEPT !.cal = "bound", !.pc = "call"]]
    /\ UNCHANGED <<creds, issued, tasks, nextTask, events, nextEvent, reqs>>

\* the documents that writes W, applied to doc in any order, can leave
RECURSIVE ApplyAny(_, _)
ApplyAny(doc, W) ==
    IF W = {} THEN {doc}
    ELSE UNION {ApplyAny(Merge(doc, w), W \ {w}) : w \in W}

\* lines 103-107: what the listeners registered for user u write on a
\* 'tokens' event: their snapshot spread under the event's tokens
ListenerWrites(u, tokens) ==
    IF Connected(tokens)
    THEN {Merge(l.data, tokens) : l \in {x \in listeners : x.uid = u}}
    ELSE {}

\* The provider library refreshes the bound credentials during a call and
\* emits 'tokens' with the new access token: every listener ever registered
\* runs (none is removed), each writing into its own user's document; the
\* writes of one user's listeners are not ordered.
TokensEvent ==
    LET tokens == [access_token |-> Token(clientCreds.refresh_token.owner, issued + 1)] IN
    /\ Settled
    /\ \E p \in Procs : procs[p].pc = "call"
    /\ "refresh_token" \in DOMAIN clientCreds
    /\ issued < MaxTok
    /\ issued' = issued + 1
    /\ clientCreds' = Merge(clientCreds, tokens)
    /\ \E c \in [Users -> UNION {ApplyAny(creds[u], ListenerWrites(u, tokens)) : u \in Users}] :
          /\ \A u \in Users : c[u] \in ApplyAny(creds[u], ListenerWrites(u, tokens))
          /\ creds' = c
    /\ UNCHANGED <<boundUid, listeners, tasks, nextTask, events, nextEvent, reqs, procs>>

\* ------------------------------------------------------------------ tasks
\* the request bodies of POST /tasks
PostBodies ==
    WithKey(WithKey(WithKey({Empty}, "title", {"a"}), "dueDateTime", {600}),
            "calendarSync", {TRUE})

\* the request bodies of PATCH /tasks/:id: at most MaxFields of these keys
PatchBodies ==
    {b \in WithKey(WithKey(WithKey(WithKey({Empty},
            "title", {"b"}), "dueDateTime", {NoDue, 660}),
            "calendarSync", BOOLEAN), "calendarEventId", {NoEvent, 1}) :
        Cardinality(DOMAIN b) <= MaxFields}

TaskIds == 1 .. MaxTasks

\* the document of task id of user u, Empty when there is none (snap.data())
Doc(u, id) == IF id \in DOMAIN tasks[u] THEN tasks[u][id] ELSE Empty

\* ref.set(payload, { merge: true }): creates the document when there is none
SetMerge(u, id, payload) ==
    [tasks EXCEPT ![u] = [i \in DOMAIN @ \cup {id} |-> IF i = id THEN Merge(Doc(u, id), payload)
                                                       ELSE @[i]]]

\* variant: the record is left in place
DeleteNothing(u, id) == tasks

\* ref.delete()
Delete(u, id) == [tasks EXCEPT ![u] = [i \in DOMAIN @ \ {id} |-> @[i]]]

\* variant: the check of line 133 left out
TitleMissingNever(title) == FALSE

\* line 133: !title
TitleMissing(title) == title = ""

\* line 156, and line 185 for the document read back
SyncNow(calendarSync, dueDateTime) == calendarSync /\ dueDateTime # NoDue

\* lines 120-165: the body is destructured with its defaults, a missing
\* title answers 400, else the document is added under an id no document of
\* the collection has, and the sync decided
StartPost(p, u, b, plan, alone) ==
    LET title == Get(b, "title", "")
        dueDateTime == Get(b, "dueDateTime", NoDue)
        calendarSync == Get(b, "calendarSync", FALSE)
        timezone == Get(b, "timezone", DefaultZone)
        id == nextTask + 1
        r == [Fresh("post", u) EXCEPT !.plan = plan, !.body = b,
                                      !.wanted = SyncNow(calendarSync, dueDateTime)]
    IN
    /\ Free(p, alone)
    /\ reqs < MaxReqs
    /\ reqs' = reqs + 1
    /\ plan = "again" => "calendarSync" \in DOMAIN b
    /\ IF TitleMissing(title)
       THEN /\ procs' = [procs EXCEPT ![p] = Done(r, 400, Empty)]
            /\ UNCHANGED <<tasks, nextTask>>
       ELSE /\ nextTask < MaxTasks
            /\ id \notin DOMAIN tasks[u]
            /\ nextTask' = id
            /\ tasks' = SetMerge(u, id, [title |-> title, dueDateTime |-> dueDateTime,
                                         calendarSync |-> calendarSync, timezone |-> timezone])
            /\ procs' = [procs EXCEPT ![p] =
                  IF SyncNow(calendarSync, dueDateTime)
                  THEN [r EXCEPT !.id = id, !.pc = "bind",
                                 !.arg = [title |-> title, dueDateTime |-> dueDateTime,
                                          timezone |-> timezone]]
                  ELSE [r EXCEPT !.id = id, !.pc = "final_read"]]
    /\ UNCHANGED <<creds, clientCreds, boundUid, listeners, issued, events, nextEvent>>

\* line 182
SyncWanted(payload) ==
    /\ Get(payload, "calendarSync", FALSE) \/ Get(payload, "dueDateTime", NoDue) # NoDue
    /\ Get(payload, "calendarSync", TRUE) # FALSE

\* lines 171-182: the payload is merged into the document (updatedAt is not
\* modelled), creating it when there is none, and the sync is decided
StartPatch(p, u, id, b, plan, alone) ==
    /\ Free(p, alone)
    /\ reqs < MaxReqs
    /\ reqs' = reqs + 1
    /\ plan = "again" => DOMAIN b = {"dueDateTime", "title"}
    /\ tasks' = SetMerge(u, id, b)
    /\ procs' = [procs EXCEPT ![p] =
                    [Fresh("patch", u) EXCEPT
                        !.id = id, !.plan = plan, !.body = b, !.wanted = SyncWanted(b),
                        !.pc = IF SyncWanted(b) THEN "reread" ELSE "final_read"]]
    /\ UNCHANGED <<creds, clientCreds, boundUid, listeners, issued, nextTask,
                   events, nextEvent>>

\* lines 171-182 again, for the second PATCH of a client that sends it twice
PatchAgain(p) ==
    LET r == procs[p] IN
    /\ At(p, "patch_again")
    /\ tasks' = SetMerge(r.uid, r.id, r.body)
    /\ procs' = [procs EXCEPT ![p] =
                    [r EXCEPT !.pc = IF SyncWanted(r.body) THEN "reread" ELSE "final_read"]]
    /\ UNCHANGED <<creds, clientCreds, boundUid, listeners, issued, nextTask,
                   events, nextEvent, reqs>>

\* lines 183-185: the task handed to upsertCalendarEvent is the document read back
Reread(p) ==
    LET r == procs[p]
        task == Doc(r.uid, r.id)
    IN
    /\ At(p, "reread")
    /\ procs' = [procs EXCEPT ![p] =
                    IF SyncNow(TRUE, Get(task, "dueDateTime", NoDue))
                    THEN [r EXCEPT !.pc = "bind", !.arg = task]
                    ELSE [r EXCEPT !.pc = "final_read"]]
    /\ UNCHANGED <<creds, clientCreds, boundUid, listeners, issued, tasks, nextTask,
                   events, nextEvent, reqs>>

\* variant: the stored event id is never looked at
HasEventIdNever(task) == FALSE

\* lines 206 and 234: the task carries an event id
HasEventId(task) == Get(task, "calendarEventId", NoEvent) # NoEvent

\* lines 195-206: the document is read; an event id on it asks for the client
StartDelete(p, u, id, alone) ==
    LET task == Doc(u, id)
        eid == Get(task, "calendarEventId", NoEvent)
    IN
    /\ Free(p, alone)
    /\ reqs < MaxReqs
    /\ reqs' = reqs + 1
    /\ procs' = [procs EXCEPT ![p] =
                    IF HasEventId(task)
                    THEN [Fresh("delete", u) EXCEPT !.id = id, !.pc = "bind",
                                                    !.arg = Field("calendarEventId", eid)]
                    ELSE [Fresh("delete", u) EXCEPT !.id = id, !.pc = "remove"]]
    /\ UNCHANGED <<creds, clientCreds, boundUid, listeners, issued, tasks, nextTask,
                   events, nextEvent>>

\* lines 215-216
Remove(p) ==
    LET r == procs[p] IN
    /\ At(p, "remove")
    /\ tasks' = Delete(r.uid, r.id)
    /\ procs' = [procs EXCEPT ![p] = Done(r, 200, Empty)]
    /\ UNCHANGED <<creds, clientCreds, boundUid, listeners, issued, nextTask,
                   events, nextEvent, reqs>>

\* variant: the listing is read from the whole database
ListingOfAll(u) == IF tasks[u] # Empty THEN tasks[u] ELSE tasks[CHOOSE v \in Users : v # u]

\* variant: the listing leaves the event id out of each document
ListingNoEventId(u) ==
    [id \in DOMAIN tasks[u] |->
        [k \in DOMAIN tasks[u][id] \ {"calendarEventId"} |-> tasks[u][id][k]]]

\* lines 114-116: the documents of the user's own collection
Listing(u) == tasks[u]

\* lines 113-117: the user's collection is read and sent
StartGet(p, u, alone) ==
    /\ Free(p, alone)
    /\ reqs < MaxReqs
    /\ reqs' = reqs + 1
    /\ procs' = [procs EXCEPT ![p] = Done(Fresh("get", u), 200, Listing(u))]
    /\ UNCHANGED <<creds, clientCreds, boundUid, listeners, issued, tasks, nextTask,
                   events, nextEvent>>

\* lines 113-117, for the GET of a client that reads back what it created
GetAgain(p) ==
    LET r == procs[p] IN
    /\ At(p, "get_again")
    /\ procs' = [procs EXCEPT ![p] = Done(r, 200, Listing(r.uid))]
    /\ UNCHANGED <<creds, clientCreds, boundUid, listeners, issued, tasks, nextTask,
                   events, nextEvent, reqs>>

\* ------------------------------------------------------- the provider call
\* variant: the event ends when it starts
EventOfNoDuration(task) ==
    LET start == FromISO(task.dueDateTime, Get(task, "timezone", DefaultZone))
    IN [summary |-> Get(task, "title", ""), start |-> start, end |-> start]

\* lines 224-232: the event of a task
EventOf(task) ==
    LET start == FromISO(task.dueDateTime, Get(task, "timezone", DefaultZone))
        end == Plus(start, DefaultDuration)
    IN [summary |-> Get(task, "title", ""), start |-> start, end |-> end]

\* the event with id eid in the calendar of account acct, as a set
Found(acct, eid) == {e \in events : e.id = eid /\ e.cal = acct}

\* variant: no try around events.delete
SwallowedNever(kind) == FALSE

\* lines 209-211: the try around events.delete has an empty catch
Swallowed(kind) == kind = "delete"

\* lines 234-244 and 209-211: one call on the shared client, acting on the
\* calendar of the credentials the client holds when the call is made.  ok:
\* the provider serves the call; an update or delete of an event the calendar
\* does not hold is refused.  A refused insert or update throws out of the
\* handler; a refused delete is swallowed.
Call(p, ok) ==
    LET r == procs[p]
        acct == Account(clientCreds)
        eid == Get(r.arg, "calendarEventId", NoEvent)
        served == [r EXCEPT !.calls = @ + 1]
        refused == [r EXCEPT !.calls = @ + 1, !.refused = TRUE]
    IN
    /\ At(p, "call")
    /\ IF r.kind = "delete"
       THEN /\ UNCHANGED nextEvent
            /\ IF ok /\ Found(acct, eid) # {}
               THEN /\ events' = events \ Found(acct, eid)
                    /\ procs' = [procs EXCEPT ![p] =
                                    [served EXCEPT !.pc = "remove", !.eventId = eid]]
               ELSE /\ procs' = [procs EXCEPT ![p] =
                                    IF Swallowed(r.kind) THEN [refused EXCEPT !.pc = "remove"]
                                    ELSE Failed(refused)]
                    /\ UNCHANGED events
       ELSE IF HasEventId(r.arg)
       THEN /\ UNCHANGED nextEvent
            /\ IF ok /\ Found(acct, eid) # {}
               THEN /\ events' = {IF e \in Found(acct, eid)
                                  THEN Merge(e, EventOf(r.arg)) ELSE e : e \in events}
                    /\ procs' = [procs EXCEPT ![p] =
                                    [served EXCEPT !.pc = "write_id", !.eventId = eid]]
               ELSE /\ procs' = [procs EXCEPT ![p] = Failed(refused)]
                    /\ UNCHANGED events
       ELSE IF ok
       THEN /\ nextEvent < MaxEvents
            /\ nextEvent' = nextEvent + 1
            /\ events' = events \cup
                  {Merge([id |-> nextEvent + 1, cal |-> acct, task |-> <<r.uid, r.id>>],
                         EventOf(r.arg))}
            /\ procs' = [procs EXCEPT ![p] =
                            [served EXCEPT !.pc = "write_id", !.eventId = nextEvent + 1]]
       ELSE /\ procs' = [procs EXCEPT ![p] = Failed(refused)]
            /\ UNCHANGED <<events, nextEvent>>
    /\ UNCHANGED <<creds, clientCreds, boundUid, listeners, issued, tasks, nextTask, reqs>>

\* lines 164 and 187: ref.update({ calendarEventId }) throws when the
\* document is gone
WriteId(p) ==
    LET r == procs[p] IN
    /\ At(p, "write_id")
    /\ IF r.id \in DOMAIN tasks[r.uid]
       THEN /\ tasks' = SetMerge(r.uid, r.id, Field("calendarEventId", r.eventId))
            /\ procs' = [procs EXCEPT ![p] = [r EXCEPT !.pc = "final_read"]]
       ELSE /\ procs' = [procs EXCEPT ![p] = Failed(r)]
            /\ UNCHANGED tasks
    /\ UNCHANGED <<creds, clientCreds, boundUid, listeners, issued, nextTask,
                   events, nextEvent, reqs>>

\* lines 167-168 and 191-192: the document is read back and sent.  A client
\* whose plan is "again" follows the answer at once with its next request:
\* GET /tasks after a POST, the same PATCH after a PATCH, keeping the first
\* answer and the events there were.
FinalRead(p) ==
    LET r == procs[p]
        doc == Doc(r.uid, r.id)
        st == IF r.kind = "post" THEN 201 ELSE 200
        kept == [r EXCEPT !.plan = "once", !.status = st, !.resp = doc,
                          !.first = [resp |-> doc, events |-> events],
                          !.cal = "none", !.calls = 0, !.eventId = NoEvent,
                          !.refused = FALSE]
    IN
    /\ At(p, "final_read")
    /\ procs' = [procs EXCEPT ![p] =
                    IF r.plan = "once" THEN Done(r, st, doc)
                    ELSE IF r.kind = "post" THEN [kept EXCEPT !.kind = "get", !.pc = "get_again", !.wanted = FALSE]
                    ELSE [kept EXCEPT !.pc = "patch_again"]]
    /\ UNCHANGED <<creds, clientCreds, boundUid, listeners, issued, tasks, nextTask,
                   events, nextEvent, reqs>>

\* the answer has left and the slot is free again
Release(p) ==
    /\ procs[p].pc \in {"done", "failed"}
    /\ procs' = [procs EXCEPT ![p] = IdleProc]
    /\ UNCHANGED <<creds, clientCreds, boundUid, listeners, issued, tasks, nextTask,
                   events, nextEvent, reqs>>

\* ---------------------------------------------------------- specifications
\* a step of the request in slot p, its PATCH bodies drawn from patches
Step(p, patches, alone) ==
    \/ \E st \in CallbackStates, code \in {"ok", "bad"} : StartCallback(p, st, code, alone)
    \/ CbStore(p)
    \/ \E u \in Users, b \in PostBodies : StartPost(p, u, b, "once", alone)
    \/ \E u \in Users, id \in TaskIds, b \in patches : StartPatch(p, u, id, b, "once", alone)
    \/ Reread(p)
    \/ \E u \in Users, id \in TaskIds : StartDelete(p, u, id, alone)
    \/ \E u \in Users : StartGet(p, u, alone)
    \/ Bind(p)
    \/ \E ok \in BOOLEAN : Call(p, ok)
    \/ WriteId(p)
    \/ FinalRead(p)
    \/ Remove(p)
    \/ Release(p)

\* a step of a client that follows its request with a second one
Twice(p) ==
    \/ \E u \in Users, b \in PostBodies : StartPost(p, u, b, "again", TRUE)
    \/ \E u \in Users, id \in TaskIds, b \in PatchBodies : StartPatch(p, u, id, b, "again", TRUE)
    \/ PatchAgain(p)
    \/ GetAgain(p)

\* the PATCH bodies of the concurrent specification: one field fewer
FewPatchBodies == {b \in PatchBodies : Cardinality(DOMAIN b) < MaxFields}

\* requests are handled concurrently, each client sending one request
Next ==
    \/ \E p \in Procs : Step(p, FewPatchBodies, FALSE)
    \/ TokensEvent

Spec == Init /\ [][Next]_vars

\* one request at a time, the client sending one request or two in a row
NextSeq ==
    \/ \E p \in Procs : Step(p, PatchBodies, TRUE)
    \/ \E p \in Procs : Twice(p)
    \/ TokensEvent

SpecSeq == Init /\ [][NextSeq]_vars

\* The PATCH bodies of the race: without calendarEventId
RaceBodies == {b \in FewPatchBodies : "calendarEventId" \notin DOMAIN b}

\* what an earlier POST /tasks of u1 with { title, dueDateTime, calendarSync:
\* true } left while u1 was not yet connected: the task with a null event id
PendingTask ==
    [title |-> "a", dueDateTime |-> 600, calendarSync |-> TRUE,
     timezone |-> DefaultZone, calendarEventId |-> NoEvent]

\* u1 is connected and has one sync-enabled task, with its event or still
\* without one
InitRace ==
    /\ creds = [u \in Users |-> IF u = "u1" THEN Grant(u, 0) ELSE Empty]
    /\ clientCreds = Empty
    /\ boundUid = NoUser
    /\ listeners = {}
    /\ issued = 0
    /\ nextTask = 1
    /\ \/ /\ tasks = [u \in Users |-> IF u = "u1" THEN <<PendingTask>> ELSE Empty]
          /\ events = {}
          /\ nextEvent = 0
       \/ /\ tasks = [u \in Users |-> IF u = "u1" THEN <<SeedTask>> ELSE Empty]
          /\ events = {SeedEvent}
          /\ nextEvent = 1
    /\ reqs = 0
    /\ procs = [p \in Procs |-> IdleProc]

\* concurrent PATCH requests of u1 on that task
NextRace ==
    \/ \E p \in Procs :
          \/ \E b \in RaceBodies : StartPatch(p, "u1", 1, b, "once", FALSE)
          \/ Reread(p)
          \/ Bind(p)
          \/ \E ok \in BOOLEAN : Call(p, ok)
          \/ WriteId(p)
          \/ FinalRead(p)
          \/ Release(p)
    \/ TokensEvent

SpecRace == InitRace /\ [][NextRace]_vars

\* ------------------------------------------------------------------ claims
\* the request in slot p has answered 200 or 201 and is of one of the kinds
Answered(p, kinds) ==
    /\ procs[p].pc = "done"
    /\ procs[p].kind \in kinds
    /\ procs[p].status \in {200, 201}

\* the stored credential document holds a refresh token or an access token
HasTokens(data) == DOMAIN data \cap {"refresh_token", "access_token"} # {}

\* the task document of the request in slot p
TaskOf(p) == Doc(procs[p].uid, procs[p].id)

\* the task is sync-enabled and has a due time
IsSyncTask(d) == Get(d, "calendarSync", FALSE) /\ Get(d, "dueDateTime", NoDue) # NoDue

\* the task holds the id of an event that starts at its due time in its
\* zone and ends 30 minutes later
HasItsEvent(d) ==
    /\ Get(d, "calendarEventId", NoEvent) # NoEvent
    /\ \E e \in events :
          /\ e.id = d.calendarEventId
          /\ Local(e.start) = d.dueDateTime
          /\ e.start.zone = Get(d, "timezone", DefaultZone)
          /\ e.end.utc = e.start.utc + 30
          /\ e.end.zone = e.start.zone

\* C1: a write to a stored credential made on a token refresh goes to the
\* user the shared client is bound to, and to no other user's document.
C1_RefreshWritesOnlyBoundUser ==
    [][TokensEvent => \A u \in Users \ {boundUid} : creds'[u] = creds[u]]_vars

\* C2: no provider call (insert, update, delete) is issued for a task whose
\* calendarSync is false or whose dueDateTime is null.
C2_NoCallForUnsyncedTask ==
    [][\A p \in Procs :
          procs[p].pc = "call" /\ procs'[p].pc # "call"
          => /\ Get(TaskOf(p), "calendarSync", TRUE)
             /\ Get(TaskOf(p), "dueDateTime", 1) # NoDue]_vars

\* C3, as claimed, for a create: once POST /tasks has answered, a task with
\* calendarSync and a dueDateTime holds the id of an event that starts at the
\* due time in the task's zone and ends 30 minutes later.
C3_SyncedOnceAnswered ==
    \A p \in Procs :
        Answered(p, {"post"}) /\ IsSyncTask(TaskOf(p)) => HasItsEvent(TaskOf(p))

\* C3, amended: the same, for a create, or an update whose body carries
\* calendarSync (not false) or a dueDateTime, of a connected user, no other
\* request running meanwhile.
C3_SyncedOnceAnsweredConnected ==
    \A p \in Procs :
        /\ Answered(p, {"post", "patch"})
        /\ procs[p].wanted
        /\ HasTokens(creds[procs[p].uid])
        /\ IsSyncTask(TaskOf(p))
        => HasItsEvent(TaskOf(p))

C3_Witness ==
    \E p \in Procs :
        /\ Answered(p, {"patch"})
        /\ procs[p].wanted
        /\ HasTokens(creds[procs[p].uid])
        /\ IsSyncTask(TaskOf(p))
        /\ TaskOf(p).dueDateTime = 660
        /\ Get(TaskOf(p), "timezone", DefaultZone) = OtherZone
        /\ HasItsEvent(TaskOf(p))

\* the calendarEventId of a document, -1 when it has none
EventIdOf(d) == Get(d, "calendarEventId", -1)

\* the ids of a set of events
Ids(es) == {e.id : e \in es}

\* the second PATCH of a client that sent the same body twice has answered
AnsweredTwice(p) == Answered(p, {"patch"}) /\ procs[p].first # Empty

\* C4, as claimed: after the same PATCH ran twice in a row on a sync-enabled
\* task, the task holds the same calendarEventId as after the first and
\* exactly one remote event exists for it.
C4_TwiceLeavesOneEvent ==
    \A p \in Procs :
        AnsweredTwice(p) /\ IsSyncTask(TaskOf(p))
        => /\ EventIdOf(procs[p].resp) = EventIdOf(procs[p].first.resp)
           /\ Cardinality({e \in events : e.task = <<procs[p].uid, procs[p].id>>}) = 1

\* C4, amended: for a connected user the second PATCH issues one events.update on the id the first left: the task
\* holds the same non-null calendarEventId and no remote event is added.
C4_TwiceUpdatesInPlace ==
    \A p \in Procs :
        /\ AnsweredTwice(p)
        /\ IsSyncTask(TaskOf(p))
        /\ HasTokens(creds[procs[p].uid])
        => /\ EventIdOf(procs[p].resp) = EventIdOf(procs[p].first.resp)
           /\ EventIdOf(procs[p].resp) = procs[p].eventId
           /\ EventIdOf(procs[p].resp) \notin {-1, NoEvent}
           /\ procs[p].calls = 1
           /\ Ids(events) = Ids(procs[p].first.events)

C4_Witness ==
    \E p \in Procs :
        /\ AnsweredTwice(p)
        /\ IsSyncTask(TaskOf(p))
        /\ HasTokens(creds[procs[p].uid])
        /\ procs[p].body = [title |-> "b", dueDateTime |-> 660]
        /\ procs[p].calls = 1
        /\ EventIdOf(procs[p].resp) \notin {-1, NoEvent}
        /\ EventIdOf(procs[p].resp) = EventIdOf(procs[p].first.resp)

\* no token
NoToken == Token(NoUser, 0)

\* C5: after a refresh notification with a new access token and no refresh
\* token, the bound user's stored credential holds the new access token and
\* the refresh token that was stored just before.
C5_RefreshKeepsRefreshToken ==
    [][TokensEvent
       => /\ Get(creds'[boundUid], "access_token", NoToken) = clientCreds'.access_token
          /\ Get(creds'[boundUid], "refresh_token", NoToken)
                = Get(creds[boundUid], "refresh_token", NoToken)]_vars

\* C6: a DELETE whose events.delete the provider refused goes on to remove
\* the task record and answers 200; it never throws.
C6_DeleteSurvivesRefusal ==
    \A p \in Procs :
        procs[p].kind = "delete" /\ procs[p].refused
        => /\ procs[p].pc \in {"remove", "done"}
           /\ procs[p].pc = "done"
              => procs[p].status = 200 /\ procs[p].id \notin DOMAIN tasks[procs[p].uid]

C6_Witness ==
    \E p \in Procs :
        /\ procs[p].kind = "delete"
        /\ procs[p].refused
        /\ procs[p].pc = "done"
        /\ procs[p].status = 200
        /\ procs[p].id \notin DOMAIN tasks[procs[p].uid]

\* C7: for a user whose credential document has neither token,
\* calendarClientFor returns null: the shared client, its listeners and the
\* events are left as they were, no provider call follows, and
\* upsertCalendarEvent returns null without throwing.
C7_NotConnectedReturnsNull ==
    /\ [](\A p \in Procs : procs[p].cal = "null" => procs[p].calls = 0 /\ procs[p].pc # "call")
    /\ [][\A p \in Procs :
             /\ procs[p].pc = "bind"
             /\ procs'[p].pc # "bind"
             /\ ~HasTokens(creds[procs[p].uid])
             => /\ procs'[p].cal = "null"
                /\ procs'[p].kind # "delete"
                   => procs'[p].pc = "write_id" /\ procs'[p].eventId = NoEvent
                /\ clientCreds' = clientCreds
                /\ listeners' = listeners
                /\ boundUid' = boundUid
                /\ events' = events]_vars

C7_Witness ==
    \E p \in Procs :
        /\ procs[p].kind \in {"post", "patch"}
        /\ procs[p].cal = "null"
        /\ procs[p].pc = "final_read"
        /\ procs[p].calls = 0
        /\ ~HasTokens(creds[procs[p].uid])
        /\ EventIdOf(TaskOf(p)) = NoEvent

\* C8: a callback whose state carries no user identity is answered 400.
C8_NoUidAnswers400 ==
    \A p \in Procs :
        /\ procs[p].kind = "callback"
        /\ procs[p].pc = "done"
        /\ procs[p].body.state = NoUser
        => procs[p].status = 400

\* C9: POST /tasks without a title answers 400 at once; no task record and
\* no event is created, and no credential, client or provider state changes.
C9_NoTitleCreatesNothing ==
    [][\A p \in Procs :
          /\ procs[p].pc = "idle"
          /\ procs'[p].kind = "post"
          /\ "title" \notin DOMAIN procs'[p].body
          => /\ procs'[p].pc = "done"
             /\ procs'[p].status = 400
             /\ procs'[p].calls = 0
             /\ tasks' = tasks
             /\ nextTask' = nextTask
             /\ events' = events
             /\ nextEvent' = nextEvent
             /\ creds' = creds
             /\ clientCreds' = clientCreds
             /\ listeners' = listeners]_vars

C9_Witness ==
    \E p \in Procs :
        /\ procs[p].kind = "post"
        /\ "title" \notin DOMAIN procs[p].body
        /\ "calendarSync" \in DOMAIN procs[p].body
        /\ procs[p].pc = "done"
        /\ procs[p].status = 400
        /\ tasks[procs[p].uid] = Empty

\* the GET of a client that read back the task it had just created has answered
ReadBack(p) == Answered(p, {"get"}) /\ procs[p].first # Empty

\* C10: a task created with sync enabled and read back with GET /tasks, no
\* request running in between, is listed with the calendarEventId the create
\* answered.
C10_ReadBackSameEventId ==
    \A p \in Procs :
        ReadBack(p)
        => /\ procs[p].id \in DOMAIN procs[p].resp
           /\ EventIdOf(procs[p].resp[procs[p].id]) = EventIdOf(procs[p].first.resp)

C10_Witness ==
    \E p \in Procs :
        /\ ReadBack(p)
        /\ procs[p].id \in DOMAIN procs[p].resp
        /\ EventIdOf(procs[p].first.resp) \notin {-1, NoEvent}
        /\ EventIdOf(procs[p].resp[procs[p].id]) = EventIdOf(procs[p].first.resp)

\* the request in slot p makes its provider call in this step
Calls(p) == procs[p].pc = "call" /\ procs'[p].calls = procs[p].calls + 1

\* C11: every provider call made while handling a request of user U is made
\* with U's credentials, under any interleaving of requests of several users.
C11_CallsWithOwnCredentials ==
    [][\A p \in Procs : Calls(p) => Account(clientCreds) = procs[p].uid]_vars

\* C12: whenever no request is in flight, the remote event a task's
\* calendarEventId names has the task's title as its summary and the task's
\* dueDateTime as its start.
C12_Lockstep ==
    (\A p \in Procs : procs[p].pc = "idle")
    => \A u \in Users : \A id \in DOMAIN tasks[u] : \A e \in events :
          e.id = EventIdOf(tasks[u][id]) /\ e.cal = u
          => /\ e.summary = Get(tasks[u][id], "title", "")
             /\ Local(e.start) = Get(tasks[u][id], "dueDateTime", NoDue)

\* the remote events created for task id of user u
EventsOf(u, id) == {e \in events : e.task = <<u, id>>}

\* C13, as claimed: for concurrent PATCH requests on the same sync-enabled
\* task at most one remote event is ever created for the task.
C13_AtMostOneEvent ==
    \A u \in Users : \A id \in TaskIds : Cardinality(EventsOf(u, id)) <= 1

\* C13, amended: under every interleaving each PATCH issues events.insert at
\* most once, and only when the task it read back held no calendarEventId;
\* every id a PATCH writes onto the task, and the id left on the task when
\* no request is in flight, is the id of an event that exists for the task.
C13_InsertOnlyWithoutId ==
    /\ []((\A p \in Procs : procs[p].pc = "idle")
          => \A id \in DOMAIN tasks["u1"] :
                EventIdOf(tasks["u1"][id]) \notin {-1, NoEvent}
                => \E e \in EventsOf("u1", id) : e.id = EventIdOf(tasks["u1"][id]))
    /\ [][\A p \in Procs :
             /\ Calls(p) /\ nextEvent' # nextEvent
                => /\ procs[p].calls = 0
                   /\ EventIdOf(procs[p].arg) \in {-1, NoEvent}
                   /\ nextEvent' = nextEvent + 1
             /\ procs[p].pc = "write_id" /\ procs'[p].pc = "final_read"
                => /\ EventIdOf(Doc(procs[p].uid, procs[p].id)') = procs[p].eventId
                   /\ \E e \in EventsOf(procs[p].uid, procs[p].id) :
                         e.id = procs[p].eventId]_vars

\* two PATCH requests both created an event; the task holds the id of one
C13_Witness ==
    /\ \A p \in Procs : procs[p].pc = "idle"
    /\ Cardinality(EventsOf("u1", 1)) = 2
    /\ \E e \in EventsOf("u1", 1) : e.id = EventIdOf(Doc("u1", 1))

\* C14: when the calendar upsert of a POST /tasks fails, the request sends
\* no answer (the error propagates), the provider call is not made again, and
\* the task record written before the sync stays stored without a
\* calendarEventId.
C14_FailedUpsertLeavesTask ==
    \A p \in Procs :
        procs[p].kind = "post" /\ procs[p].refused
        => /\ procs[p].pc = "failed"
           /\ procs[p].status = 0
           /\ procs[p].calls = 1
           /\ procs[p].id \in DOMAIN tasks[procs[p].uid]
           /\ EventIdOf(TaskOf(p)) = -1
           /\ Get(TaskOf(p), "title", "") = procs[p].body.title

C14_Witness ==
    \E p \in Procs :
        /\ procs[p].kind = "post"
        /\ procs[p].refused
        /\ procs[p].pc = "failed"
        /\ IsSyncTask(TaskOf(p))
        /\ EventIdOf(TaskOf(p)) = -1

DocAfter(u, id) == IF id \in DOMAIN tasks'[u] THEN tasks'[u][id] ELSE Empty

\* C16: a PATCH whose body sets calendarSync to false makes no provider call
\* and leaves the events and the task's calendarEventId as they were.
C16_SyncFalseTouchesNothing ==
    [][\A p \in Procs :
          /\ procs[p].pc = "idle"
          /\ procs'[p].kind = "patch"
          /\ Get(procs'[p].body, "calendarSync", TRUE) = FALSE
          => /\ procs'[p].pc = "final_read"
             /\ events' = events
             /\ Get(DocAfter(procs'[p].uid, procs'[p].id), "calendarEventId", NoEvent)
                   = Get(Doc(procs'[p].uid, procs'[p].id), "calendarEventId", NoEvent)]_vars

\* C17: every request makes at most one provider call, served or refused.
C17_SingleAttempt ==
    /\ [](\A p \in Procs : procs[p].calls <= 1)
    /\ [][\A p \in Procs : Calls(p) => procs'[p].pc # "call"]_vars

\* a request whose one call was refused has ended
C17_Witness ==
    \E p \in Procs :
        /\ procs[p].kind = "patch"
        /\ procs[p].refused
        /\ procs[p].calls = 1
        /\ procs[p].pc = "failed"

\* C18: the calendarEventId stored on a task is null or absent, or an id the
\* provider has issued.
C18_EventIdFromProvider ==
    \A u \in Users : \A id \in DOMAIN tasks[u] :
        EventIdOf(tasks[u][id]) \in {-1, NoEvent} \cup (1 .. nextEvent)

\* C19: every stored task record has a non-empty title.
C19_TitleNonEmpty ==
    \A u \in Users : \A id \in DOMAIN tasks[u] : Get(tasks[u][id], "title", "") # ""

\* C20: a step changes the task collection of user U only when it is a step
\* of a request authenticated as U, and what a request answers with is U's
\* own collection, or a document of it.
C20_OwnCollectionOnly ==
    /\ [](\A p \in Procs :
             /\ Answered(p, {"get"}) => procs[p].resp = tasks[procs[p].uid]
             /\ Answered(p, {"post", "patch"}) => procs[p].resp = TaskOf(p)
             /\ Answered(p, {"delete", "callback"}) => procs[p].resp = Empty)
    /\ [][\A u \in Users :
             tasks'[u] # tasks[u]
             => \E p \in Procs : procs'[p] # procs[p] /\ procs'[p].uid = u]_vars

\* u2 has read its own empty collection while u1 holds a task
C20_Witness ==
    \E p \in Procs :
        /\ Answered(p, {"get"})
        /\ procs[p].uid = "u2"
        /\ procs[p].resp = Empty
        /\ tasks["u1"] # Empty

====
